---- MODULE Spec2Model ----
(***************************************************************************)
(* A model of the go-json codec core: the streaming Decoder (its type ->   *)
(* decoder cache, context pool and read loop), the decoder compiler, the   *)
(* numeric scanner and the Encoder.                                        *)
(*                                                                         *)
(* Bytes are one-character strings, byte slices are sequences of them.     *)
(* Go cursors are 0-based: buf[cursor] in Go is buf[cursor + 1] here.      *)
(***************************************************************************)
EXTENDS Integers, Sequences, FiniteSets, TLC

VARIABLES
    destTypes,      \* the dynamic types of the values the callers pass as v
    reader,         \* d.r: per Decoder, the responses its io.Reader has yet to give
    stream,         \* per Decoder, everything its io.Reader was constructed to give
    cachedDecoder,  \* the package-level map[string]decoder
    ctxs,           \* every *context ever made by ctxPool.New, by identity
    ctxPool,        \* identities of the contexts currently inside ctxPool
    buffered,       \* d.buffered: the context the closure captured (0: nil func)
    mem,            \* the destination variables, one per destination type
    hist,           \* the Decode / Unmarshal calls made so far, in order
    ret,            \* what the most recent call did and returned: the context it
                    \* borrowed, the Reads it made and what they answered, the
                    \* program it ran, whether it compiled
    encs,           \* every *Encoder ever made by encPool.New, by identity
    encPool,        \* identities of the Encoders currently inside encPool
    cachedOpcode,   \* the package-level opcodeMap: type pointer -> *opcodeSet
    encodes,        \* the number of Encode calls made so far
    eret,           \* what the most recent Encoder call did and returned
    gor,            \* per goroutine running Decode concurrently with others (one
                    \* per Decoder): where it is, and what its lookup gave it
    egor,           \* per goroutine running Encode concurrently with others (one
                    \* per Encoder): where it is, and the opcode object it holds
    scan            \* the numeric scanner on its own: an input, the chunks its
                    \* reader delivers it in, and what the two scanners returned

decVars ==
    <<destTypes, reader, stream, cachedDecoder, ctxs, ctxPool, buffered, mem, hist, ret>>
encVars == <<encs, encPool, cachedOpcode, encodes, eret>>
vars == <<decVars, encVars, gor, egor, scan>>

-----------------------------------------------------------------------------
(* Bounds of the model *)

MaxStream == 3      \* bytes a reader delivers in all
MaxReads == 2       \* scripted responses of a reader before it is exhausted
MaxCalls == 2       \* Decode / Unmarshal calls in one run
MaxCtx == 1         \* contexts ctxPool.New makes at most
MaxFields == 2      \* fields of a struct type
MaxEnc == 1         \* Encoders encPool.New makes at most
MaxEncodes == 2     \* Encode calls in one run
MaxConcEncodes == 3 \* Encode calls in one run of the concurrent encoders
MaxScanLen == 3     \* bytes of an input of the scanner model

-----------------------------------------------------------------------------
(* Errors *)

Nil == "nil"
EOF == "io.EOF"
ErrTransport == "ErrTransport"                  \* any error of the reader or writer
ErrDecodePointer == "ErrDecodePointer"
ErrUnexpectedEndOfJSON == "errUnexpectedEndOfJSON"
ErrSyntax == "strconv.ErrSyntax"
ErrExpectedObject == "errExpected"
ErrUnsupportedType == "UnsupportedType"
NilDereference == "panic: nil pointer dereference"

-----------------------------------------------------------------------------
(* Sequence helpers *)

RECURSIVE Concat(_)
Concat(ss) == IF ss = <<>> THEN <<>> ELSE Head(ss) \o Concat(Tail(ss))

SeqsUpTo(S, n) == UNION {[1..k -> S] : k \in 0..n}

MapSet(m, k, v) == [x \in (DOMAIN m) \cup {k} |-> IF x = k THEN v ELSE m[x]]

-----------------------------------------------------------------------------
(* Type descriptors (reflect's *rtype): identity, Kind(), String(), Elem(), *)
(* Field(i).                                                               *)

mkType(id, kind, str) ==
    [id |-> id, kind |-> kind, str |-> str, elem |-> <<>>, fields |-> <<>>]

PtrTo(t) ==
    [id |-> "*" \o t.id, kind |-> "Ptr", str |-> "*" \o t.str,
     elem |-> <<t>>, fields |-> <<>>]

mkField(name, pkgPath, tag, typ, offset) ==
    [Name |-> name, PkgPath |-> pkgPath, Anonymous |-> FALSE,
     Tag |-> tag, Type |-> typ, Offset |-> offset]

TFloat64 == mkType("float64", "Float64", "float64")
TFloat32 == mkType("float32", "Float32", "float32")
TMap == mkType("map[string]int", "Map", "map[string]int")
TInt8 == mkType("int8", "Int8", "int8")
TInt16 == mkType("int16", "Int16", "int16")
TInt32 == mkType("int32", "Int32", "int32")
TInt64 == mkType("int64", "Int64", "int64")
TUint8 == mkType("uint8", "Uint8", "uint8")
TUint16 == mkType("uint16", "Uint16", "uint16")
TUint64 == mkType("uint64", "Uint64", "uint64")
IntTypes == {TInt8, TInt16, TInt32, TInt64, TUint8, TUint16, TUint64}
\* Two distinct named types of two packages whose last path element is the
\* same: reflect's String() prints both with the short package name.
TModelA == mkType("a/model.T", "Float64", "model.T")
TModelB == mkType("b/model.T", "Float32", "model.T")
\* type S struct { M map[string]int }
TStructS ==
    [id |-> "main.S", kind |-> "Struct", str |-> "main.S", elem |-> <<>>,
     fields |-> <<mkField(<<"M">>, "", <<>>, TMap, 0)>>]

\* The struct types `type T struct { ... }` of at most MaxFields float64
\* fields, each with a name and a json tag; a field whose name starts in lower
\* case is unexported (reflect gives it a PkgPath).
FieldNames == {<<"A">>, <<"B">>, <<"a">>}
FieldTags == {<<>>, <<"-">>, <<"a">>, <<"A">>, <<"B">>, <<"b", ",", "o">>}

StructOf(fs) ==
    [id |-> "main.T", kind |-> "Struct", str |-> "main.T", elem |-> <<>>,
     fields |-> [i \in 1..Len(fs) |->
                  mkField(fs[i].name,
                          IF fs[i].name[1] \in {"a", "b"} THEN "main" ELSE "",
                          fs[i].tag, TFloat64, 8 * (i - 1))]]

StructTypes ==
    {StructOf(fs) : fs \in
        {f \in SeqsUpTo([name : FieldNames, tag : FieldTags], MaxFields) :
            \A i, j \in 1..Len(f) : i # j => f[i].name # f[j].name}}

DestTypes ==
    {TFloat64, PtrTo(TFloat64), PtrTo(TMap), PtrTo(PtrTo(TMap)),
     PtrTo(TModelA), PtrTo(TModelB), PtrTo(TStructS)}

-----------------------------------------------------------------------------
(* Bytes *)

Digits == {"0", "1", "2", "3", "4", "5", "6", "7", "8", "9"}
Whitespace == {" ", "\n", "\t", "\r"}
FirstBytes == {"-"} \cup Digits
\* A table without the exponent and sign bytes.
floatTableNoExponent == Digits \cup {"."}
floatTable == Digits \cup {".", "e", "E", "+"}

DigitVal(c) ==
    CASE c = "0" -> 0 [] c = "1" -> 1 [] c = "2" -> 2 [] c = "3" -> 3
      [] c = "4" -> 4 [] c = "5" -> 5 [] c = "6" -> 6 [] c = "7" -> 7
      [] c = "8" -> 8 [] c = "9" -> 9

\* The bytes the readers of the streaming model deliver.
StreamBytes == {"1", "2", " "}

-----------------------------------------------------------------------------
(* The numeric scanner and the float decoder (decode_float.go) *)

\* The inner loop of decodeByte: the first cursor at or after `cursor` whose
\* byte is outside floatTable, or len(buf).
RECURSIVE floatEnd(_, _)
floatEnd(buf, cursor) ==
    IF cursor < Len(buf) /\ buf[cursor + 1] \in floatTable
    THEN floatEnd(buf, cursor + 1)
    ELSE cursor

\* floatDecoder.decodeByte(buf, cursor) -> (num, cursor, err)
RECURSIVE decodeByte(_, _)
decodeByte(buf, cursor) ==
    IF cursor >= Len(buf)
    THEN [num |-> <<>>, cursor |-> 0, err |-> ErrUnexpectedEndOfJSON]
    ELSE IF buf[cursor + 1] \in Whitespace
    THEN decodeByte(buf, cursor + 1)
    ELSE IF buf[cursor + 1] \in FirstBytes
    THEN LET end == floatEnd(buf, cursor + 1)
         IN  [num |-> SubSeq(buf, cursor + 1, end), cursor |-> end, err |-> Nil]
    ELSE [num |-> <<>>, cursor |-> 0, err |-> ErrUnexpectedEndOfJSON]

\* The input stream of the streaming scanner: the bytes read so far, a
\* cursor, and the chunks the reader has yet to deliver.  s.char() is the
\* byte under the cursor, and the nul sentinel at the end of the bytes read.
\* (No input of the model holds a nul byte of its own.)
nul == "\\0"
newStream(chunks) == [buf |-> <<>>, cursor |-> 0, rd |-> chunks]
char(s) == IF s.cursor < Len(s.buf) THEN s.buf[s.cursor + 1] ELSE nul

\* s.read(): pull the reader's next chunk into the buffer; false when the
\* reader has nothing more.
read(s) ==
    IF s.rd = <<>> THEN [ok |-> FALSE, s |-> s]
    ELSE [ok |-> Head(s.rd) # <<>>,
          s |-> [s EXCEPT !.buf = @ \o Head(s.rd), !.rd = Tail(@)]]

\* The loop of floatBytes without `s.cursor--`: after a refill it goes on
\* from the byte after the boundary.
RECURSIVE floatBytesLoopNoRewind(_)
floatBytesLoopNoRewind(s) ==
    LET s1 == [s EXCEPT !.cursor = @ + 1]
    IN  IF char(s1) \in floatTable THEN floatBytesLoopNoRewind(s1)
        ELSE IF char(s1) = nul /\ read(s1).ok
        THEN floatBytesLoopNoRewind(read(s1).s)
        ELSE IF char(s1) = nul THEN read(s1).s
        ELSE s1

\* The loop of floatBytes: the stream when the loop breaks.
RECURSIVE floatBytesLoop(_)
floatBytesLoop(s) ==
    LET s1 == [s EXCEPT !.cursor = @ + 1]
    IN  IF char(s1) \in floatTable THEN floatBytesLoop(s1)
        ELSE IF char(s1) = nul /\ read(s1).ok
        THEN floatBytesLoop([read(s1).s EXCEPT !.cursor = @ - 1])
        ELSE IF char(s1) = nul THEN read(s1).s
        ELSE s1

\* floatBytes(s) -> s.buf[start:s.cursor]
floatBytes(s) ==
    LET t == floatBytesLoop(s)
    IN  [bytes |-> SubSeq(t.buf, s.cursor + 1, t.cursor), s |-> t]

\* floatDecoder.decodeStreamByte(s) -> ([]byte, error)
RECURSIVE decodeStreamByte(_)
decodeStreamByte(s) ==
    IF char(s) \in Whitespace
    THEN decodeStreamByte([s EXCEPT !.cursor = @ + 1])
    ELSE IF char(s) \in FirstBytes
    THEN [bytes |-> floatBytes(s).bytes, err |-> Nil, s |-> floatBytes(s).s]
    ELSE IF char(s) = nul /\ read(s).ok
    THEN decodeStreamByte(read(s).s)
    ELSE [bytes |-> <<>>, err |-> ErrUnexpectedEndOfJSON,
          s |-> IF char(s) = nul THEN read(s).s ELSE s]

\* The decimal value of a run of digits.
RECURSIVE DecimalValue(_)
DecimalValue(ds) ==
    IF ds = <<>> THEN 0
    ELSE 10 * DecimalValue(SubSeq(ds, 1, Len(ds) - 1)) + DigitVal(ds[Len(ds)])

\* strconv.ParseFloat(s, 64) on the literals the scanner can cut out of the
\* model's byte alphabets: an optional '-' and digits.  (Fractions and
\* exponents are not in those alphabets; every such value is exact.)
ParseFloat(s) ==
    LET neg == s # <<>> /\ s[1] = "-"
        ds == IF neg THEN Tail(s) ELSE s
    IN  IF ds = <<>> \/ \E i \in 1..Len(ds) : ds[i] \notin Digits
        THEN [val |-> 0, err |-> ErrSyntax]
        ELSE [val |-> IF neg THEN 0 - DecimalValue(ds) ELSE DecimalValue(ds),
              err |-> Nil]

\* A destination cell: which writer last wrote it (its width) and the value.
Cell(kind, val) == [kind |-> kind, val |-> val]

\* floatDecoder.decode(buf, cursor, p) -> (cursor, err), with the writer `op`
\* compileFloat32 / compileFloat64 bound: it stores through p at that width.
floatDecode(bits, buf, cursor, cell) ==
    LET b == decodeByte(buf, cursor)
        f == ParseFloat(b.num)
    IN  IF b.err # Nil THEN [cursor |-> 0, err |-> b.err, cell |-> cell]
        ELSE IF f.err # Nil THEN [cursor |-> 0, err |-> f.err, cell |-> cell]
        ELSE [cursor |-> b.cursor, err |-> Nil,
              cell |-> Cell(IF bits = 32 THEN "float32" ELSE "float64", f.val)]

-----------------------------------------------------------------------------
(* The integer decoders.  The numbers of the model lie in [-2^31, 2^31): a  *)
(* conversion to 32 or 64 bits leaves every one of them as it is, and a     *)
(* conversion to 8 or 16 bits keeps the low bits.                           *)

Pow2(w) == IF w = 8 THEN 256 ELSE 65536

\* Go's integer conversion intW(v) / uintW(v) for W = 8, 16: the low W bits of
\* v, read as a two's-complement number when the target is signed.
lowBits(v, w) == v - Pow2(w) * (IF v >= 0 THEN v \div Pow2(w)
                                ELSE 0 - ((Pow2(w) - 1 - v) \div Pow2(w)))
convert(v, w, signed) ==
    IF w >= 32 THEN v
    ELSE IF signed /\ lowBits(v, w) >= Pow2(w) \div 2
    THEN lowBits(v, w) - Pow2(w)
    ELSE lowBits(v, w)

\* The writers compileInt8 .. compileUint64 bind: what each stores through p.
intCellKind(signed, bits) ==
    CASE signed /\ bits = 8 -> "int8" [] signed /\ bits = 16 -> "int16"
      [] signed /\ bits = 32 -> "int32" [] signed /\ bits = 64 -> "int64"
      [] ~signed /\ bits = 8 -> "uint8" [] ~signed /\ bits = 16 -> "uint16"
      [] ~signed /\ bits = 64 -> "uint64"

\* The same writers without the conversion: each stores v as it is.
intWriterWide(signed, bits, v) == Cell(intCellKind(signed, bits), v)

intWriter(signed, bits, v) ==
    IF bits = 64 THEN Cell(intCellKind(signed, bits), v)     \* *(*int64)(p) = v
    ELSE Cell(intCellKind(signed, bits), convert(v, bits, signed))

\* The scan of an integer token: leading whitespace, then an optional '-'
\* (signed decoders only: the unsigned writers take a uint64) and digits.
RECURSIVE digitsEnd(_, _)
digitsEnd(buf, cursor) ==
    IF cursor < Len(buf) /\ buf[cursor + 1] \in Digits
    THEN digitsEnd(buf, cursor + 1)
    ELSE cursor

RECURSIVE scanInt(_, _, _)
scanInt(buf, cursor, signed) ==
    IF cursor >= Len(buf)
    THEN [num |-> <<>>, cursor |-> 0, err |-> ErrUnexpectedEndOfJSON]
    ELSE IF buf[cursor + 1] \in Whitespace
    THEN scanInt(buf, cursor + 1, signed)
    ELSE IF buf[cursor + 1] \in Digits \/ (signed /\ buf[cursor + 1] = "-")
    THEN LET end == digitsEnd(buf, cursor + 1)
         IN  [num |-> SubSeq(buf, cursor + 1, end), cursor |-> end, err |-> Nil]
    ELSE [num |-> <<>>, cursor |-> 0, err |-> ErrSyntax]

\* intDecoder.decode / uintDecoder.decode: scan, parse in decimal, and hand
\* the number to the writer bound at compile time.
ParseInt(s) ==
    LET neg == s # <<>> /\ s[1] = "-"
        ds == IF neg THEN Tail(s) ELSE s
    IN  IF ds = <<>> THEN [val |-> 0, err |-> ErrSyntax]
        ELSE [val |-> IF neg THEN 0 - DecimalValue(ds) ELSE DecimalValue(ds),
              err |-> Nil]

intDecode(signed, bits, buf, cursor, cell) ==
    LET b == scanInt(buf, cursor, signed)
        f == ParseInt(b.num)
    IN  IF b.err # Nil THEN [cursor |-> 0, err |-> b.err, cell |-> cell]
        ELSE IF f.err # Nil THEN [cursor |-> 0, err |-> f.err, cell |-> cell]
        ELSE [cursor |-> b.cursor, err |-> Nil,
              cell |-> intWriter(signed, bits, f.val)]

-----------------------------------------------------------------------------
(* The decoder compiler (Decoder.compile and its helpers) *)

\* Decoder programs.  NilDecoder is Go's nil `decoder` interface value.
NilDecoder == [node |-> "nil", bits |-> 0, elem |-> <<>>, fieldMap |-> <<>>]
newFloatDecoder(bits) ==
    [node |-> "float", bits |-> bits, elem |-> <<>>, fieldMap |-> <<>>]
\* newIntDecoder(op) / newUintDecoder(op); `bits` names the writer op.
newIntDecoder(bits) ==
    [node |-> "int", bits |-> bits, elem |-> <<>>, fieldMap |-> <<>>]
newUintDecoder(bits) ==
    [node |-> "uint", bits |-> bits, elem |-> <<>>, fieldMap |-> <<>>]
newPtrDecoder(dec) ==
    [node |-> "ptr", bits |-> 0, elem |-> <<dec>>, fieldMap |-> <<>>]
newStructDecoder(fieldMap) ==
    [node |-> "struct", bits |-> 0, elem |-> <<>>, fieldMap |-> fieldMap]

\* strings.ToLower, on the letters field names and tags are written in.
ToLowerByte(c) ==
    CASE c = "A" -> "a" [] c = "B" -> "b" [] c = "M" -> "m" [] OTHER -> c
ToLower(s) == [i \in 1..Len(s) |-> ToLowerByte(s[i])]

\* strings.Split(tag, ",")[0]: the tag up to its first comma.
RECURSIVE firstOpt(_)
firstOpt(tag) ==
    IF tag = <<>> \/ Head(tag) = "," THEN <<>>
    ELSE <<Head(tag)>> \o firstOpt(Tail(tag))

\* Decoder.isIgnoredStructField
isIgnoredStructField(field) ==
    IF field.PkgPath # "" /\ ~field.Anonymous THEN TRUE
    ELSE field.Tag = <<"-">>

\* The key a field is serialized under: its name, unless the tag's first
\* option is non-empty (compileStruct, lines 319-326).
keyNameOf(field) ==
    IF firstOpt(field.Tag) # <<>> THEN firstOpt(field.Tag) ELSE field.Name

\* The three assignments of compileStruct, in the order the code makes them:
\* a Go map assignment replaces whatever the key held.
insertField(fieldMap, field, fieldSet) ==
    MapSet(MapSet(MapSet(fieldMap, field.Name, fieldSet),
                  keyNameOf(field), fieldSet),
           ToLower(keyNameOf(field)), fieldSet)

RECURSIVE compile(_)
RECURSIVE compileStructFields(_, _, _)

\* The loop of compileStruct from field i (1-based) on.
compileStructFields(typ, i, fieldMap) ==
    IF i > Len(typ.fields)
    THEN [dec |-> newStructDecoder(fieldMap), err |-> Nil]
    ELSE LET field == typ.fields[i]
         IN  IF isIgnoredStructField(field)
             THEN compileStructFields(typ, i + 1, fieldMap)
             ELSE LET c == compile(field.Type)
                      fieldSet == [dec |-> c.dec, offset |-> field.Offset]
                  IN  IF c.err # Nil THEN [dec |-> NilDecoder, err |-> c.err]
                      ELSE compileStructFields(typ, i + 1,
                               insertField(fieldMap, field, fieldSet))

compileStruct(typ) == compileStructFields(typ, 1, <<>>)

compilePtr(typ) ==
    LET c == compile(typ.elem[1])
    IN  IF c.err # Nil THEN [dec |-> NilDecoder, err |-> c.err]
        ELSE [dec |-> newPtrDecoder(c.dec), err |-> Nil]

\* Decoder.compile(typ) -> (decoder, error): a kind outside the switch falls
\* through to `return nil, nil`.
compile(typ) ==
    CASE typ.kind = "Ptr" -> compilePtr(typ)
      [] typ.kind = "Struct" -> compileStruct(typ)
      [] typ.kind = "Int8" -> [dec |-> newIntDecoder(8), err |-> Nil]
      [] typ.kind = "Int16" -> [dec |-> newIntDecoder(16), err |-> Nil]
      [] typ.kind = "Int32" -> [dec |-> newIntDecoder(32), err |-> Nil]
      [] typ.kind = "Int64" -> [dec |-> newIntDecoder(64), err |-> Nil]
      [] typ.kind = "Uint8" -> [dec |-> newUintDecoder(8), err |-> Nil]
      [] typ.kind = "Uint16" -> [dec |-> newUintDecoder(16), err |-> Nil]
      [] typ.kind = "Uint64" -> [dec |-> newUintDecoder(64), err |-> Nil]
      [] typ.kind = "Float32" -> [dec |-> newFloatDecoder(32), err |-> Nil]
      [] typ.kind = "Float64" -> [dec |-> newFloatDecoder(64), err |-> Nil]
      [] OTHER -> [dec |-> NilDecoder, err |-> Nil]

-----------------------------------------------------------------------------
(* The execution runtime of the decoder: contexts and running a program *)

newContext == [buf |-> <<>>, cursor |-> 0]

\* context.setBuf
setBuf(cx, buf) == [buf |-> buf, cursor |-> 0]

\* dec.decode(ctx, ptr): the program `dec` run on the context's buffer, storing
\* through ptr into `cell`.  Calling a method of the nil interface panics.
\* Object syntax is outside StreamBytes, so a struct decoder only ever meets a
\* buffer that does not open an object.
RECURSIVE runDecoder(_, _, _)
runDecoder(dec, cx, cell) ==
    CASE dec.node = "float" ->
           LET r == floatDecode(dec.bits, cx.buf, cx.cursor, cell)
           IN  IF r.err # Nil THEN [err |-> r.err, cx |-> cx, cell |-> cell]
               ELSE [err |-> Nil, cx |-> [cx EXCEPT !.cursor = r.cursor],
                     cell |-> r.cell]
      [] dec.node \in {"int", "uint"} ->
           LET r == intDecode(dec.node = "int", dec.bits, cx.buf, cx.cursor, cell)
           IN  IF r.err # Nil THEN [err |-> r.err, cx |-> cx, cell |-> cell]
               ELSE [err |-> Nil, cx |-> [cx EXCEPT !.cursor = r.cursor],
                     cell |-> r.cell]
      [] dec.node = "ptr" -> runDecoder(dec.elem[1], cx, cell)
      [] dec.node = "struct" -> [err |-> ErrExpectedObject, cx |-> cx, cell |-> cell]
      [] OTHER -> [err |-> NilDereference, cx |-> cx, cell |-> cell]

\* cachedDecoder[name] and, when absent, compile and insert: the first half
\* of Decoder.Decode and of Decoder.decode.
lookupOrCompile(cache, typ) ==
    LET name == typ.str
    IN  IF name \in DOMAIN cache
        THEN [dec |-> cache[name], err |-> Nil, cache |-> cache, compiled |-> FALSE]
        ELSE LET c == compile(typ.elem[1])
             IN  IF c.err # Nil
                 THEN [dec |-> NilDecoder, err |-> c.err, cache |-> cache,
                       compiled |-> TRUE]
                 ELSE [dec |-> c.dec, err |-> Nil,
                       cache |-> IF name # "" THEN MapSet(cache, name, c.dec)
                                 ELSE cache,
                       compiled |-> TRUE]

\* ctxPool.Get(): a pooled context, or a new one from New.  `c` names which.
CtxChoices ==
    ctxPool \cup (IF Len(ctxs) < MaxCtx THEN {Len(ctxs) + 1} ELSE {})
getCtx(c) == IF c \in ctxPool THEN ctxs[c] ELSE newContext
withCtx(c, cx) ==
    IF c <= Len(ctxs) THEN [ctxs EXCEPT ![c] = cx] ELSE Append(ctxs, cx)

-----------------------------------------------------------------------------
(* io.Reader *)

ReadBufSize == 1024     \* buf := make([]byte, 1024)

\* What one Read can answer when the reader has `budget` bytes left to give:
\* (n, err) with n <= len(buf), err nil, io.EOF or a transport error.
Responses(budget) ==
    [data : {b \in SeqsUpTo(StreamBytes, budget) : Len(b) <= ReadBufSize},
     err : {Nil, EOF, ErrTransport}]

\* The readers: at most n responses delivering at most `budget` bytes.
RECURSIVE ScriptsOf(_, _)
ScriptsOf(budget, n) ==
    {<<>>} \cup
    (IF n = 0 THEN {}
     ELSE UNION {{<<r>> \o s : s \in ScriptsOf(budget - Len(r.data), n - 1)} :
                 r \in Responses(budget)})

Scripts == ScriptsOf(MaxStream, MaxReads)

Resp(data, err) == [data |-> data, err |-> err]

\* The readers and the Unmarshal sources of the cache model.
CacheScripts ==
    {<<>>, <<Resp(<<"1">>, Nil)>>, <<Resp(<<"2", " ">>, Nil), Resp(<<"1">>, Nil)>>}
CacheSrcs == {<<"1">>, <<"2", " ">>, <<" ">>}

\* d.r.Read(buf): the next scripted response; an exhausted reader answers
\* (0, io.EOF) from then on.
Read(rd) ==
    IF rd = <<>> THEN [data |-> <<>>, err |-> EOF, rest |-> <<>>]
    ELSE [data |-> Head(rd).data, err |-> Head(rd).err, rest |-> Tail(rd)]

\* The for loop of Decoder.Decode; n counts the Read calls made.
RECURSIVE decodeLoop(_, _, _, _, _)
decodeLoop(rd, dec, cx, cell, n) ==
    LET r == Read(rd)
    IN  IF Len(r.data) = 0 \/ r.err = EOF
        THEN [err |-> Nil, rd |-> r.rest, cx |-> cx, cell |-> cell, nread |-> n + 1]
        ELSE IF r.err # Nil
        THEN [err |-> r.err, rd |-> r.rest, cx |-> cx, cell |-> cell, nread |-> n + 1]
        ELSE LET o == runDecoder(dec, setBuf(cx, r.data), cell)
             IN  IF o.err # Nil
                 THEN [err |-> o.err, rd |-> r.rest, cx |-> o.cx, cell |-> o.cell,
                       nread |-> n + 1]
                 ELSE decodeLoop(r.rest, dec, o.cx, o.cell, n + 1)

-----------------------------------------------------------------------------
(* Decoder.Decode, Decoder.decode (the Unmarshal path), Decoder.Buffered *)

NoDecoder == [node |-> "none", bits |-> 0, elem |-> <<>>, fieldMap |-> <<>>]

\* A call that returns err having touched nothing.
returnEarly(d, err) ==
    [err |-> err, cache |-> cachedDecoder, ctxs |-> ctxs, pool |-> ctxPool,
     buffered |-> buffered[d], rd |-> reader[d], mem |-> mem,
     ctx |-> 0, nread |-> 0, dec |-> NoDecoder, compiled |-> FALSE]

\* Decode with the destination check made late: after the context is borrowed
\* and the first Read.
DecodeResultLateCheck(d, typ, c) ==
    IF typ.kind # "Ptr"
    THEN LET r == Read(reader[d])
         IN  [returnEarly(d, ErrDecodePointer) EXCEPT
                 !.ctxs = withCtx(c, setBuf(getCtx(c), r.data)),
                 !.pool = ctxPool \cup {c}, !.ctx = c, !.rd = r.rest, !.nread = 1]
    ELSE LET lc == lookupOrCompile(cachedDecoder, typ)
             o == decodeLoop(reader[d], lc.dec, getCtx(c), mem[typ.id], 0)
         IN  [err |-> o.err, cache |-> lc.cache, ctxs |-> withCtx(c, o.cx),
              pool |-> ctxPool \cup {c}, buffered |-> c, rd |-> o.rd,
              mem |-> [mem EXCEPT ![typ.id] = o.cell],
              ctx |-> c, nread |-> o.nread, dec |-> lc.dec,
              compiled |-> lc.compiled]

\* Decoder.Decode from `ptr := uintptr(header.ptr)` on, with what the cache
\* lookup gave (lc): borrow context c, set d.buffered, loop, return c.
decodeWith(d, typ, lc, c) ==
    LET o == decodeLoop(reader[d], lc.dec, getCtx(c), mem[typ.id], 0)
    IN  [err |-> o.err, cache |-> lc.cache,
         ctxs |-> withCtx(c, o.cx),
         pool |-> ctxPool \cup {c},      \* defer ctxPool.Put(ctx)
         buffered |-> c, rd |-> o.rd,
         mem |-> [mem EXCEPT ![typ.id] = o.cell],
         ctx |-> c, nread |-> o.nread, dec |-> lc.dec,
         compiled |-> lc.compiled]

\* Decoder.Decode(v) on Decoder d, v of dynamic type typ, ctxPool.Get()
\* answering context c: every variable's value when the call is over.
DecodeResult(d, typ, c) ==
    IF typ.kind # "Ptr" THEN returnEarly(d, ErrDecodePointer)
    ELSE LET lc == lookupOrCompile(cachedDecoder, typ)
         IN  IF lc.err # Nil
             THEN [returnEarly(d, lc.err) EXCEPT !.compiled = TRUE]
             ELSE decodeWith(d, typ, lc, c)

\* Decoder.decode(src, header), which decodeForUnmarshal and
\* decodeForUnmarshalNoEscape call.
UnmarshalResult(d, src, typ, c) ==
    IF typ.kind # "Ptr" THEN returnEarly(d, ErrDecodePointer)
    ELSE LET lc == lookupOrCompile(cachedDecoder, typ)
         IN  IF lc.err # Nil
             THEN [returnEarly(d, lc.err) EXCEPT !.compiled = TRUE]
             ELSE LET o == runDecoder(lc.dec, setBuf(getCtx(c), src), mem[typ.id])
                  IN  [err |-> o.err, cache |-> lc.cache,
                       ctxs |-> withCtx(c, o.cx),
                       \* ctxPool.Put on both return paths; a panic in
                       \* dec.decode passes both by.
                       pool |-> IF o.err = NilDereference THEN ctxPool \ {c}
                                ELSE ctxPool \cup {c},
                       buffered |-> buffered[d], rd |-> reader[d],
                       mem |-> [mem EXCEPT ![typ.id] = o.cell],
                       ctx |-> c, nread |-> 0, dec |-> lc.dec,
                       compiled |-> lc.compiled]

Commit(op, d, typ, r) ==
    /\ cachedDecoder' = r.cache
    /\ ctxs' = r.ctxs
    /\ ctxPool' = r.pool
    /\ buffered' = [buffered EXCEPT ![d] = r.buffered]
    /\ reader' = [reader EXCEPT ![d] = r.rd]
    /\ mem' = r.mem
    /\ hist' = Append(hist, [op |-> op, d |-> d, typ |-> typ.id, err |-> r.err])
    /\ ret' = [op |-> op, d |-> d, typ |-> typ.id, err |-> r.err, ctx |-> r.ctx,
               nread |-> r.nread, dec |-> r.dec, compiled |-> r.compiled,
               reads |-> SubSeq(reader[d], 1, Len(reader[d]) - Len(r.rd)),
               out |-> <<>>]
    /\ UNCHANGED <<destTypes, stream, encVars>>

Sequential(A) == A /\ UNCHANGED <<gor, egor, scan>>

Decode(d, typ) ==
    /\ Len(hist) < MaxCalls
    /\ \E c \in CtxChoices :
          Sequential(Commit("Decode", d, typ, DecodeResult(d, typ, c)))

Unmarshal(d, src, typ) ==
    /\ Len(hist) < MaxCalls
    /\ \E c \in CtxChoices :
          Sequential(Commit("Unmarshal", d, typ, UnmarshalResult(d, src, typ, c)))

\* Decoder.Buffered(): d.buffered(), a reader over ctx.buf[ctx.cursor:] of
\* the context the closure captured; a nil func before the first Decode that
\* got as far as setting it.
Buffered(d) ==
    /\ ret.op # "Buffered"
    /\ ret' = [op |-> "Buffered", d |-> d, typ |-> "", ctx |-> buffered[d],
               nread |-> 0, dec |-> NoDecoder, compiled |-> FALSE, reads |-> <<>>,
               err |-> IF buffered[d] = 0 THEN NilDereference ELSE Nil,
               out |-> IF buffered[d] = 0 THEN <<>>
                       ELSE LET cx == ctxs[buffered[d]]
                            IN  SubSeq(cx.buf, cx.cursor + 1, Len(cx.buf))]
    /\ UNCHANGED <<destTypes, reader, stream, cachedDecoder, ctxs, ctxPool,
                   buffered, mem, hist, encVars, gor, egor, scan>>

\* The zero value of a destination variable of pointer type typ.
zeroCell(typ) ==
    Cell(CASE typ.elem[1].kind = "Float64" -> "float64"
           [] typ.elem[1].kind = "Float32" -> "float32"
           [] OTHER -> "zero", 0)

PtrTypes(types) == {t \in types : t.kind = "Ptr"}

\* One zeroed destination variable per pointer type in play.
InitMem(types) ==
    [id \in {t.id : t \in PtrTypes(types)} |->
        zeroCell(CHOOSE t \in PtrTypes(types) : t.id = id)]

InitRet ==
    [op |-> "none", d |-> "", typ |-> "", err |-> Nil, ctx |-> 0, nread |-> 0,
     dec |-> NoDecoder, compiled |-> FALSE, reads |-> <<>>, out |-> <<>>]

\* After init() and NewDecoder(r) for each of `decs`: an empty cache, an empty
\* pool, readers with scripts among `scripts`, destinations of `types`.
InitDecoders(decs, scripts, types) ==
    /\ destTypes = types
    /\ reader \in [decs -> scripts]
    /\ stream = reader
    /\ cachedDecoder = <<>>
    /\ ctxs = <<>>
    /\ ctxPool = {}
    /\ buffered = [d \in decs |-> 0]
    /\ mem = InitMem(types)
    /\ hist = <<>>
    /\ ret = InitRet

-----------------------------------------------------------------------------
(* The Encoder (encode.go) *)

\* The values handed to Encode: ints, a Marshaler whose MarshalJSON fails, and
\* a channel, which no encoder can be compiled for.
EncValues ==
    {[typ |-> "int", val |-> 1], [typ |-> "int", val |-> 23],
     [typ |-> "errMarshaler", val |-> 0], [typ |-> "chan int", val |-> 0]}

IndentStrings == {<<>>, <<" ">>}

ErrMarshal == "MarshalJSON error"

DigitByte(n) ==
    CASE n = 0 -> "0" [] n = 1 -> "1" [] n = 2 -> "2" [] n = 3 -> "3"
      [] n = 4 -> "4" [] n = 5 -> "5" [] n = 6 -> "6" [] n = 7 -> "7"
      [] n = 8 -> "8" [] n = 9 -> "9"

\* strconv.AppendInt(nil, v, 10)
RECURSIVE FormatUint(_)
FormatUint(v) ==
    IF v < 10 THEN <<DigitByte(v)>>
    ELSE FormatUint(v \div 10) \o <<DigitByte(v % 10)>>
FormatInt(v) == IF v < 0 THEN <<"-">> \o FormatUint(0 - v) ELSE FormatUint(v)

\* Encoder.encodeInt64 and its callers encodeInt .. encodeInt32
encodeInt64(buf, v) == buf \o FormatInt(v)

\* The Encoder encPool.New makes: lines 66-71, every other field zero.
newEncoder ==
    [w |-> "nil", buf |-> <<>>, enabledIndent |-> FALSE,
     enabledHTMLEscape |-> FALSE, prefix |-> <<>>, indentStr |-> <<>>,
     indent |-> 0]

\* A reset that truncates the buffer and leaves the settings as they are.
resetBufOnly(e) == [e EXCEPT !.buf = <<>>, !.indent = 0]

\* Encoder.reset
reset(e) ==
    [e EXCEPT !.buf = <<>>, !.indent = 0, !.enabledHTMLEscape = TRUE,
              !.enabledIndent = FALSE]

\* Encoder.compileHead(typ, withIndent) -> (*opcode, error)
compileHead(typ, withIndent) ==
    IF typ = "chan int" THEN [code |-> "none", err |-> ErrUnsupportedType]
    ELSE [code |-> IF withIndent THEN "codeIndent" ELSE "code", err |-> Nil]

\* Encoder.run(code) on a value v: the opcode interpreter appends to e.buf.
run(buf, code, v) ==
    IF v.typ = "errMarshaler" THEN [buf |-> buf, err |-> ErrMarshal]
    ELSE [buf |-> encodeInt64(buf, v.val), err |-> Nil]

\* An opcodeSet: how many opcode copies each of its two pools holds.
poolGet(n) == IF n > 0 THEN n - 1 ELSE 0
poolPut(n) == n + 1

\* Encoder.encode(v): the buffer, the cache and the error when it returns.
encode(e, v) ==
    IF v.typ \in DOMAIN cachedOpcode
    THEN LET which == IF e.enabledIndent THEN "codeIndent" ELSE "code"
             codeSet == cachedOpcode[v.typ]
             taken == [codeSet EXCEPT ![which] = poolGet(@)]
             r == run(e.buf, which, v)
         IN  IF r.err # Nil
             THEN [err |-> r.err, buf |-> r.buf, prog |-> which, firstUse |-> FALSE,
                   cache |-> [cachedOpcode EXCEPT ![v.typ] = taken]]
             ELSE [err |-> Nil, buf |-> r.buf, prog |-> which, firstUse |-> FALSE,
                   cache |-> [cachedOpcode EXCEPT
                                ![v.typ] = [taken EXCEPT ![which] = poolPut(@)]]]
    ELSE LET codeIndent == compileHead(v.typ, TRUE)
             code == compileHead(v.typ, FALSE)
             which == IF e.enabledIndent THEN codeIndent.code ELSE code.code
             r == run(e.buf, which, v)
         IN  IF codeIndent.err # Nil
             THEN [err |-> codeIndent.err, buf |-> e.buf, prog |-> "none",
                   firstUse |-> TRUE, cache |-> cachedOpcode]
             ELSE IF code.err # Nil
             THEN [err |-> code.err, buf |-> e.buf, prog |-> "none",
                   firstUse |-> TRUE, cache |-> cachedOpcode]
             ELSE [err |-> r.err, buf |-> r.buf, prog |-> which, firstUse |-> TRUE,
                   cache |-> MapSet(cachedOpcode, v.typ,
                                    [code |-> 0, codeIndent |-> 0])]

NoValue == [typ |-> "", val |-> 0]

ERet(op, e, err) ==
    [op |-> op, e |-> e, err |-> err, val |-> NoValue, wrote |-> FALSE,
     written |-> <<>>, werr |-> Nil, prog |-> "none", firstUse |-> FALSE,
     args |-> <<>>]

\* encPool.Get(): a pooled Encoder, or a new one from New.
EncChoices ==
    encPool \cup (IF Len(encs) < MaxEnc THEN {Len(encs) + 1} ELSE {})

LiveEncs == (1..Len(encs)) \ encPool

\* NewEncoder(w)
NewEncoder(w) ==
    \E e \in EncChoices :
        /\ encs' = IF e \in encPool
                    THEN [encs EXCEPT ![e] = reset([encs[e] EXCEPT !.w = w])]
                    ELSE Append(encs, reset([newEncoder EXCEPT !.w = w]))
        /\ encPool' = encPool \ {e}
        /\ eret' = ERet("NewEncoder", e, Nil)
        /\ UNCHANGED <<cachedOpcode, encodes, decVars, gor, egor, scan>>

\* Encoder.Encode(v), the writer answering werr to the Write it gets.
Encode(e, v, werr) ==
    /\ encodes < MaxEncodes
    /\ LET r == encode(encs[e], v)
       IN  /\ encs' = [encs EXCEPT ![e].buf = r.buf]
           /\ cachedOpcode' = r.cache
           /\ eret' = [ERet("Encode", e, IF r.err # Nil THEN r.err ELSE werr)
                           EXCEPT !.val = v, !.prog = r.prog,
                                  !.firstUse = r.firstUse,
                                  !.wrote = (r.err = Nil),
                                  !.written = IF r.err = Nil THEN r.buf ELSE <<>>,
                                  !.werr = IF r.err = Nil THEN werr ELSE Nil]
    /\ encodes' = encodes + 1
    /\ UNCHANGED <<encPool, decVars, gor, egor, scan>>

\* Encoder.SetEscapeHTML(on)
SetEscapeHTML(e, on) ==
    /\ encs' = [encs EXCEPT ![e].enabledHTMLEscape = on]
    /\ eret' = ERet("SetEscapeHTML", e, Nil)
    /\ UNCHANGED <<encPool, cachedOpcode, encodes, decVars, gor, egor, scan>>

\* SetIndent without the test for ("", ""): it enables whatever it is given.
SetIndentAlways(e, prefix, indent) ==
    /\ encs' = [encs EXCEPT ![e].prefix = prefix, ![e].indentStr = indent,
                            ![e].enabledIndent = TRUE]
    /\ eret' = [ERet("SetIndent", e, Nil) EXCEPT !.args = <<prefix, indent>>]
    /\ UNCHANGED <<encPool, cachedOpcode, encodes, decVars, gor, egor, scan>>

\* Encoder.SetIndent(prefix, indent)
SetIndent(e, prefix, indent) ==
    /\ encs' = IF prefix = <<>> /\ indent = <<>>
                THEN [encs EXCEPT ![e].enabledIndent = FALSE]
                ELSE [encs EXCEPT ![e].prefix = prefix, ![e].indentStr = indent,
                                  ![e].enabledIndent = TRUE]
    /\ eret' = [ERet("SetIndent", e, Nil) EXCEPT !.args = <<prefix, indent>>]
    /\ UNCHANGED <<encPool, cachedOpcode, encodes, decVars, gor, egor, scan>>

\* Encoder.release()
Release(e) ==
    /\ encs' = [encs EXCEPT ![e].w = "nil"]
    /\ encPool' = encPool \cup {e}
    /\ eret' = ERet("release", e, Nil)
    /\ UNCHANGED <<cachedOpcode, encodes, decVars, gor, egor, scan>>

-----------------------------------------------------------------------------
(* Decode on several goroutines, each with its own Decoder.  cachedDecoder  *)
(* is a plain Go map: a lookup (runtime.mapaccess2) and an assignment       *)
(* (runtime.mapassign) each take time, and the code puts no lock around     *)
(* them.  An access that overlaps an assignment by another goroutine is a   *)
(* data race, whose outcome the language leaves open: the lookup may miss,  *)
(* hit, or yield a torn value, the assignment may store or corrupt the      *)
(* entry, and the runtime may stop the process with "concurrent map         *)
(* read and map write" / "concurrent map writes".                           *)

TornDecoder == [node |-> "torn", bits |-> 0, elem |-> <<>>, fieldMap |-> <<>>]
NoType == mkType("", "", "")

Idle == [pc |-> "idle", typ |-> NoType, dec |-> NoDecoder, compiled |-> FALSE,
         racy |-> FALSE]

Crashed == \E g \in DOMAIN gor : gor[g].pc = "fatal"
Running == {g \in DOMAIN gor : gor[g].pc # "idle"}
Others(g) == DOMAIN gor \ {g}

conVars == <<destTypes, reader, stream, ctxs, ctxPool, buffered, mem, hist, ret>>

\* Decode, lines 107-113: the pointer check passed, the lookup begins.
LookupBegin(g, typ) ==
    /\ ~Crashed /\ gor[g].pc = "idle" /\ typ.kind = "Ptr"
    /\ Len(hist) + Cardinality(Running) < MaxCalls
    /\ gor' = [gor EXCEPT ![g] =
                  [Idle EXCEPT !.pc = "reading", !.typ = typ,
                               !.racy = \E h \in Others(g) : gor[h].pc = "writing"]]
    /\ UNCHANGED <<conVars, cachedDecoder, encVars, egor, scan>>

\* What the lookup of g gives: <<dec, exists>>, or the runtime's fatal error.
LookupOutcomes(g) ==
    LET name == gor[g].typ.str
        exact == IF name \in DOMAIN cachedDecoder
                 THEN [dec |-> cachedDecoder[name], exists |-> TRUE, fatal |-> FALSE]
                 ELSE [dec |-> NoDecoder, exists |-> FALSE, fatal |-> FALSE]
    IN  IF ~gor[g].racy THEN {exact}
        ELSE {exact,
              [dec |-> NoDecoder, exists |-> FALSE, fatal |-> FALSE],
              [dec |-> TornDecoder, exists |-> TRUE, fatal |-> FALSE],
              [dec |-> NoDecoder, exists |-> FALSE, fatal |-> TRUE]}

\* Decode, lines 113-118: the lookup ends; on a miss the type is compiled.
LookupEnd(g) ==
    /\ ~Crashed /\ gor[g].pc = "reading"
    /\ \E o \in LookupOutcomes(g) :
          gor' = [gor EXCEPT ![g] =
                    IF o.fatal THEN [@ EXCEPT !.pc = "fatal"]
                    ELSE IF o.exists
                    THEN [@ EXCEPT !.pc = "ready", !.dec = o.dec, !.racy = FALSE]
                    ELSE [@ EXCEPT !.pc = "compiled", !.compiled = TRUE,
                                   !.dec = compile(gor[g].typ.elem[1]).dec,
                                   !.racy = FALSE]]
    /\ UNCHANGED <<conVars, cachedDecoder, encVars, egor, scan>>

\* Decode, lines 119-121: the assignment begins.
StoreBegin(g) ==
    /\ ~Crashed /\ gor[g].pc = "compiled"
    /\ gor' = [h \in DOMAIN gor |->
                  IF h = g
                  THEN [gor[g] EXCEPT
                          !.pc = "writing",
                          !.racy = \E k \in Others(g) : gor[k].pc = "writing"]
                  ELSE IF gor[h].pc \in {"reading", "writing"}
                  THEN [gor[h] EXCEPT !.racy = TRUE]
                  ELSE gor[h]]
    /\ UNCHANGED <<conVars, cachedDecoder, encVars, egor, scan>>

\* The assignment ends.
StoreEnd(g) ==
    /\ ~Crashed /\ gor[g].pc = "writing"
    /\ LET name == gor[g].typ.str
           done == [gor EXCEPT ![g] = [@ EXCEPT !.pc = "ready", !.racy = FALSE]]
       IN  \/ /\ cachedDecoder' = MapSet(cachedDecoder, name, gor[g].dec)
              /\ gor' = done
           \/ /\ gor[g].racy
              /\ cachedDecoder' = MapSet(cachedDecoder, name, TornDecoder)
              /\ gor' = done
           \/ /\ gor[g].racy
              /\ gor' = [gor EXCEPT ![g] = [@ EXCEPT !.pc = "fatal"]]
              /\ UNCHANGED cachedDecoder
    /\ UNCHANGED <<conVars, encVars, egor, scan>>

\* Decode, lines 124-145: the rest of the call, on g's own Decoder.
Finish(g) ==
    /\ ~Crashed /\ gor[g].pc = "ready"
    /\ \E c \in CtxChoices :
          Commit("Decode", g, gor[g].typ,
                 decodeWith(g, gor[g].typ,
                            [dec |-> gor[g].dec, cache |-> cachedDecoder,
                             compiled |-> gor[g].compiled], c))
    /\ gor' = [gor EXCEPT ![g] = Idle]
    /\ UNCHANGED <<egor, scan>>

-----------------------------------------------------------------------------
(* Encode on several goroutines, each with its own Encoder.  cachedOpcode   *)
(* is a sync.Map and the pools of an opcodeSet are sync.Pools: a Load, a    *)
(* Store, a Get and a Put are atomic.  The opcode objects are plain memory: *)
(* copyOpcode reads one, `code.ptr = p` writes one, and e.run reads and     *)
(* runs one for as long as the value takes to encode.                       *)

NoObj == [kind |-> "none", by |-> 0]
\* The program goroutine g compiled (the one the New closures capture), and a
\* copy of it that copyOpcode made.
OrigOf(g) == [kind |-> "orig", by |-> g]
CopyOf(g) == [kind |-> "copy", by |-> g]

EIdle == [pc |-> "idle", val |-> NoValue, set |-> 0, obj |-> NoObj]

EncBusy == {g \in DOMAIN egor : egor[g].pc # "idle"}

\* The pool of the opcodeSet g loaded is still the one in the cache.
SetCurrent(g) ==
    /\ egor[g].val.typ \in DOMAIN cachedOpcode
    /\ cachedOpcode[egor[g].val.typ].by = egor[g].set

WhichOf(g) == IF encs[g].enabledIndent THEN "codeIndent" ELSE "code"

\* encode, lines 152-156: cachedOpcode.get(typeptr).
EncLookup(g, v) ==
    /\ egor[g].pc = "idle" /\ encodes < MaxConcEncodes
    /\ encodes' = encodes + 1
    /\ egor' = [egor EXCEPT ![g] =
                   IF v.typ \in DOMAIN cachedOpcode
                   THEN [EIdle EXCEPT !.pc = "hit", !.val = v,
                                      !.set = cachedOpcode[v.typ].by]
                   ELSE [EIdle EXCEPT !.pc = "miss", !.val = v]]
    /\ UNCHANGED <<encs, encPool, cachedOpcode, eret, decVars, gor, scan>>

\* encode, lines 157-162: codeSet.code.Get() hands over a pooled copy, or, the
\* pool being empty, calls New, which starts copyOpcode on the original.
EncGet(g) ==
    /\ egor[g].pc = "hit"
    /\ IF SetCurrent(g) /\ cachedOpcode[egor[g].val.typ][WhichOf(g)] > 0
       THEN /\ cachedOpcode' = [cachedOpcode EXCEPT
                                  ![egor[g].val.typ][WhichOf(g)] = poolGet(@)]
            /\ egor' = [egor EXCEPT ![g].pc = "holding",
                                     ![g].obj = CopyOf(egor[g].set)]
       ELSE /\ egor' = [egor EXCEPT ![g].pc = "copying",
                                     ![g].obj = CopyOf(egor[g].set)]
            /\ UNCHANGED cachedOpcode
    /\ UNCHANGED <<encs, encPool, encodes, eret, decVars, gor, scan>>

\* copyOpcode returns.
EncCopyEnd(g) ==
    /\ egor[g].pc = "copying"
    /\ egor' = [egor EXCEPT ![g].pc = "holding"]
    /\ UNCHANGED <<encVars, decVars, gor, scan>>

\* encode, lines 177-199: compile both programs and publish the opcodeSet; a
\* compile error ends the call.
EncPublish(g) ==
    /\ egor[g].pc = "miss"
    /\ LET v == egor[g].val
           codeIndent == compileHead(v.typ, TRUE)
           code == compileHead(v.typ, FALSE)
       IN  IF codeIndent.err # Nil \/ code.err # Nil
           THEN /\ egor' = [egor EXCEPT ![g] = EIdle]
                /\ eret' = [ERet("Encode", g, IF codeIndent.err # Nil
                                               THEN codeIndent.err ELSE code.err)
                               EXCEPT !.val = v, !.firstUse = TRUE]
                /\ UNCHANGED cachedOpcode
           ELSE /\ cachedOpcode' = MapSet(cachedOpcode, v.typ,
                                          [code |-> 0, codeIndent |-> 0, by |-> g])
                /\ egor' = [egor EXCEPT ![g].pc = "holding", ![g].set = g,
                                        ![g].obj = OrigOf(g)]
                /\ UNCHANGED eret
    /\ UNCHANGED <<encs, encPool, encodes, decVars, gor, scan>>

\* encode, lines 163-165 and 200-206: code.ptr = p, and e.run(code) begins.
EncWritePtr(g) ==
    /\ egor[g].pc = "holding"
    /\ egor' = [egor EXCEPT ![g].pc = "running"]
    /\ UNCHANGED <<encVars, decVars, gor, scan>>

\* e.run(code) returns; the cached path puts the copy back unless run failed;
\* Encode writes e.buf to the writer.
EncRunEnd(g, werr) ==
    /\ egor[g].pc = "running"
    /\ LET v == egor[g].val
           r == run(encs[g].buf, WhichOf(g), v)
       IN  /\ encs' = [encs EXCEPT ![g].buf = r.buf]
           /\ cachedOpcode' =
                 IF egor[g].obj.kind = "copy" /\ r.err = Nil /\ SetCurrent(g)
                 THEN [cachedOpcode EXCEPT ![v.typ][WhichOf(g)] = poolPut(@)]
                 ELSE cachedOpcode
           /\ eret' = [ERet("Encode", g, IF r.err # Nil THEN r.err ELSE werr)
                           EXCEPT !.val = v, !.prog = WhichOf(g),
                                  !.firstUse = (egor[g].obj.kind = "orig"),
                                  !.wrote = (r.err = Nil),
                                  !.written = IF r.err = Nil THEN r.buf ELSE <<>>,
                                  !.werr = IF r.err = Nil THEN werr ELSE Nil]
    /\ egor' = [egor EXCEPT ![g] = EIdle]
    /\ UNCHANGED <<encPool, encodes, decVars, gor, scan>>

\* After init(): an empty encoder pool and an empty opcode cache.
InitEncoders ==
    /\ encs = <<>>
    /\ encPool = {}
    /\ cachedOpcode = <<>>
    /\ encodes = 0
    /\ eret = ERet("none", 0, Nil)

NoGoroutines == gor = <<>> /\ egor = <<>>

NoScan == [input |-> <<>>, chunks |-> <<>>, phase |-> "off"]
NoScanning == scan = NoScan

\* The encoder model.
InitEnc == InitDecoders({}, {<<>>}, {}) /\ InitEncoders /\ NoGoroutines /\ NoScanning

NextEnc ==
    \/ NewEncoder("w1")
    \/ \E e \in LiveEncs, v \in EncValues, werr \in {Nil, ErrTransport} :
          Encode(e, v, werr)
    \/ \E e \in LiveEncs, on \in BOOLEAN : SetEscapeHTML(e, on)
    \/ \E e \in LiveEncs, prefix \in IndentStrings, indent \in IndentStrings :
          SetIndent(e, prefix, indent)
    \/ \E e \in LiveEncs : Release(e)

SpecEnc == InitEnc /\ [][NextEnc]_vars

\* The concurrent encoder model: two Encoders fresh from NewEncoder, one with
\* an indent set, one goroutine each.
InitEncConc ==
    /\ InitDecoders({}, {<<>>}, {})
    /\ gor = <<>>
    /\ encs = <<reset([newEncoder EXCEPT !.w = "w"]),
                [reset([newEncoder EXCEPT !.w = "w"]) EXCEPT
                    !.indentStr = <<" ">>, !.enabledIndent = TRUE]>>
    /\ encPool = {}
    /\ cachedOpcode = <<>>
    /\ encodes = 0
    /\ eret = ERet("none", 0, Nil)
    /\ egor = [g \in {1, 2} |-> EIdle]
    /\ NoScanning

NextEncConc ==
    \/ \E g \in DOMAIN egor, v \in EncValues : EncLookup(g, v)
    \/ \E g \in DOMAIN egor : EncGet(g)
    \/ \E g \in DOMAIN egor : EncCopyEnd(g)
    \/ \E g \in DOMAIN egor : EncPublish(g)
    \/ \E g \in DOMAIN egor : EncWritePtr(g)
    \/ \E g \in DOMAIN egor, werr \in {Nil, ErrTransport} : EncRunEnd(g, werr)

SpecEncConc == InitEncConc /\ [][NextEncConc]_vars

\* The streaming model: every reader script, one destination type.
InitStream ==
    InitDecoders({"d1"}, Scripts, {PtrTo(TFloat64)}) /\ InitEncoders /\ NoGoroutines /\ NoScanning

NextStream ==
    \/ \E d \in DOMAIN reader, typ \in destTypes : Decode(d, typ)
    \/ \E d \in DOMAIN reader : Buffered(d)

SpecStream == InitStream /\ [][NextStream]_vars

\* The cache model: every destination type, a few readers and sources.
InitCache ==
    InitDecoders({"d1"}, CacheScripts, DestTypes) /\ InitEncoders /\ NoGoroutines /\ NoScanning

NextCache ==
    \/ \E d \in DOMAIN reader, typ \in destTypes : Decode(d, typ)
    \/ \E d \in DOMAIN reader, src \in CacheSrcs, typ \in destTypes :
          Unmarshal(d, src, typ)
    \/ \E d \in DOMAIN reader : Buffered(d)

SpecCache == InitCache /\ [][NextCache]_vars

\* The struct model: one struct type of any shape, a reader at end of input.
InitStruct ==
    /\ \E T \in StructTypes : InitDecoders({"d1"}, {<<>>}, {PtrTo(T)})
    /\ InitEncoders /\ NoGoroutines /\ NoScanning

NextStruct ==
    \/ \E d \in DOMAIN reader, typ \in destTypes : Decode(d, typ)
    \/ \E d \in DOMAIN reader : Buffered(d)

SpecStruct == InitStruct /\ [][NextStruct]_vars

\* The integer model: numerals around the 8- and 16-bit boundaries decoded
\* from memory into destinations of every modelled integer type.
IntSrcs ==
    {<<"1", "2", "8">>, <<"3", "0", "0">>, <<"-", "1", "2", "9">>,
     <<" ", "3", "2", "7", "6", "8">>, <<"7", "0", "0", "0", "0">>,
     <<"-", "3", "2", "7", "6", "9">>}

InitInt ==
    /\ InitDecoders({"d1"}, {<<>>}, {PtrTo(t) : t \in IntTypes})
    /\ InitEncoders /\ NoGoroutines /\ NoScanning

NextInt ==
    \/ \E d \in DOMAIN reader, src \in IntSrcs, typ \in destTypes :
          Unmarshal(d, src, typ)
    \/ \E d \in DOMAIN reader : Buffered(d)

SpecInt == InitInt /\ [][NextInt]_vars

\* The scanner model: every input of at most MaxScanLen bytes, delivered by
\* the reader in any number of non-empty chunks, scanned from the stream and
\* scanned from memory.
ScanBytes == {"1", "-", ".", "e", "+", " ", "\n", "x"}

\* The ways to cut b into consecutive non-empty chunks.
RECURSIVE ChunkingsOf(_)
ChunkingsOf(b) ==
    IF b = <<>> THEN {<<>>}
    ELSE UNION {{<<SubSeq(b, 1, k)>> \o rest :
                    rest \in ChunkingsOf(SubSeq(b, k + 1, Len(b)))} :
                k \in 1..Len(b)}

NotRun == [done |-> FALSE, bytes |-> <<>>, cursor |-> 0, err |-> Nil]

InitScan ==
    /\ InitDecoders({}, {<<>>}, {}) /\ InitEncoders /\ NoGoroutines
    /\ \E b \in SeqsUpTo(ScanBytes, MaxScanLen) : \E cs \in ChunkingsOf(b) :
          scan = [input |-> b, chunks |-> cs, phase |-> "on",
                  streamed |-> NotRun, inMemory |-> NotRun]

\* decodeStreamByte on a stream over the chunks.
ScanStream ==
    /\ scan.phase = "on" /\ ~scan.streamed.done
    /\ LET r == decodeStreamByte(newStream(scan.chunks))
       IN  scan' = [scan EXCEPT !.streamed =
                       [done |-> TRUE, bytes |-> r.bytes, cursor |-> r.s.cursor,
                        err |-> r.err]]
    /\ UNCHANGED <<decVars, encVars, gor, egor>>

\* decodeByte on the whole input, from cursor 0.
ScanBuf ==
    /\ scan.phase = "on" /\ ~scan.inMemory.done
    /\ LET r == decodeByte(scan.input, 0)
       IN  scan' = [scan EXCEPT !.inMemory =
                       [done |-> TRUE, bytes |-> r.num, cursor |-> r.cursor,
                        err |-> r.err]]
    /\ UNCHANGED <<decVars, encVars, gor, egor>>

NextScan == ScanStream \/ ScanBuf

SpecScan == InitScan /\ [][NextScan]_vars

\* The two-decoder model: two Decoders, each on a reader of its own, decoding
\* into float64 destinations and sharing the package's context pool.
TwoScripts ==
    CacheScripts \cup {<<Resp(<<"1", " ">>, Nil)>>, <<Resp(<<"2">>, EOF)>>}

InitTwo ==
    /\ InitDecoders({"d1", "d2"}, TwoScripts, {PtrTo(TFloat64)})
    /\ InitEncoders /\ NoGoroutines /\ NoScanning

NextTwo ==
    \/ \E d \in DOMAIN reader, typ \in destTypes : Decode(d, typ)
    \/ \E d \in DOMAIN reader : Buffered(d)

SpecTwo == InitTwo /\ [][NextTwo]_vars

\* The concurrent model: two Decoders at end of input, one goroutine each,
\* decoding into float64 and float32 destinations.
InitConc ==
    /\ InitDecoders({"d1", "d2"}, {<<>>}, {PtrTo(TFloat64), PtrTo(TFloat32)})
    /\ InitEncoders
    /\ gor = [g \in {"d1", "d2"} |-> Idle]
    /\ egor = <<>>
    /\ NoScanning

NextConc ==
    \/ \E g \in DOMAIN gor, typ \in destTypes : LookupBegin(g, typ)
    \/ \E g \in DOMAIN gor : LookupEnd(g)
    \/ \E g \in DOMAIN gor : StoreBegin(g)
    \/ \E g \in DOMAIN gor : StoreEnd(g)
    \/ \E g \in DOMAIN gor : Finish(g)

SpecConc == InitConc /\ [][NextConc]_vars

-----------------------------------------------------------------------------
(* Helpers of the properties *)

TypeOf(id) == CHOOSE t \in destTypes : t.id = id

IsCall == ret.op \in {"Decode", "Unmarshal"}

\* The bytes a sequence of Read responses delivered, in order.
Delivered(reads) == Concat([i \in 1..Len(reads) |-> reads[i].data])

\* A reader that delivers data with a nil error on every scripted Read.
CleanScript(script) ==
    \A i \in 1..Len(script) : script[i].err = Nil /\ script[i].data # <<>>

AllSpace(bytes) == \A i \in 1..Len(bytes) : bytes[i] \in Whitespace

\* The JSON numbers a byte stream holds, in order.
RECURSIVE StreamValues(_)
StreamValues(bytes) ==
    LET b == decodeByte(bytes, 0)
    IN  IF b.err # Nil THEN <<>>
        ELSE <<b.num>> \o StreamValues(SubSeq(bytes, b.cursor + 1, Len(bytes)))

\* A program with no nil decoder anywhere in it.
RECURSIVE Complete(_)
Complete(dec) ==
    /\ dec.node # "nil"
    /\ \A i \in DOMAIN dec.elem : Complete(dec.elem[i])
    /\ \A k \in DOMAIN dec.fieldMap : Complete(dec.fieldMap[k].dec)

\* A type of a kind compile has no case for, or built from one.
RECURSIVE Unsupported(_)
Unsupported(typ) ==
    \/ typ.kind \notin {"Ptr", "Struct", "Float32", "Float64"}
    \/ \E i \in DOMAIN typ.elem : Unsupported(typ.elem[i])
    \/ \E i \in DOMAIN typ.fields : Unsupported(typ.fields[i].Type)

\* The keys compileStruct inserts for a field.
KeysOf(field) == {field.Name, keyNameOf(field), ToLower(keyNameOf(field))}

\* The earliest-declared field of typ, not ignored, that inserts `key`.
FirstFieldFor(typ, key) ==
    LET is == {i \in 1..Len(typ.fields) :
                  /\ ~isIgnoredStructField(typ.fields[i])
                  /\ key \in KeysOf(typ.fields[i])}
    IN  typ.fields[CHOOSE i \in is : \A j \in is : i <= j]

-----------------------------------------------------------------------------
(* Properties *)

\* C2: when one JSON value arrives over any number of Reads, Decode succeeds
\* and the destination holds the value of the concatenated input.
C2_ChunkingDoesNotMatter ==
    LET whole == Delivered(stream["d1"])
        vals == StreamValues(whole)
    IN  (/\ Len(hist) = 1 /\ ret.op = "Decode"
         /\ CleanScript(stream["d1"]) /\ Len(vals) = 1)
        => /\ ret.err = Nil
           /\ mem[ret.typ].val = ParseFloat(vals[1]).val

\* C3: the k-th Decode call of a stream of several values stores the k-th
\* value (stated for a stream that arrives whole in one Read).
C3_KthDecodeStoresKthValue ==
    LET vals == StreamValues(Delivered(stream["d1"]))
        k == Len(hist)
    IN  (/\ CleanScript(stream["d1"]) /\ Len(stream["d1"]) = 1
         /\ k >= 1 /\ k <= Len(vals))
        => /\ hist[k].err = Nil
           /\ mem[hist[k].typ].val = ParseFloat(vals[k]).val

\* C1: the bytes each Encode hands to the writer are the encoding of the
\* value of that call and nothing else.
C1_WritesOnlyThisValue ==
    (eret.op = "Encode" /\ eret.wrote)
        => eret.written = run(<<>>, eret.prog, eret.val).buf

\* C4: a Decode during which a Read returned a transport error returns that
\* error, and an Encode whose Write returned an error returns that error.
C4_TransportErrorsSurface ==
    /\ (ret.op = "Decode"
         /\ \E i \in 1..Len(ret.reads) : ret.reads[i].err = ErrTransport)
          => ret.err = ErrTransport
    /\ (eret.op = "Encode" /\ eret.wrote /\ eret.werr # Nil)
          => eret.err = eret.werr

\* C5: a Decode whose input ends before any complete value returns the
\* unexpected-end error, and a Decode that returns nil has decoded every byte
\* the reader delivered to it, those delivered along with io.EOF included.
C5_EndOfInput ==
    ret.op = "Decode" =>
        /\ (/\ \A i \in 1..Len(ret.reads) : ret.reads[i].err # ErrTransport
            /\ AllSpace(Delivered(ret.reads)))
           => ret.err = ErrUnexpectedEndOfJSON
        /\ ret.err = Nil =>
              /\ Delivered(ret.reads) # <<>>
              /\ \A i \in 1..Len(ret.reads) :
                    ret.reads[i].data # <<>> => ret.reads[i].err = Nil

\* C6: a Decode or Unmarshal-path decode whose destination is not a pointer
\* returns ErrDecodePointer and changes nothing: no Read, no compile, no cache
\* insertion, no context borrowed, no destination written.
C6_NonPointerFailsFirst ==
    [][(hist' # hist /\ TypeOf(ret'.typ).kind # "Ptr")
        => /\ ret'.err = ErrDecodePointer
           /\ reader' = reader /\ ret'.nread = 0
           /\ cachedDecoder' = cachedDecoder /\ ~ret'.compiled
           /\ ctxs' = ctxs /\ ctxPool' = ctxPool /\ ret'.ctx = 0
           /\ buffered' = buffered
           /\ mem' = mem]_vars

\* A Decode of a non-pointer destination returned ErrDecodePointer while the
\* reader had data to give, the pool a context to lend and the cache an entry.
C6_Witness ==
    /\ ret.op = "Decode" /\ ret.typ = TFloat64.id
    /\ ret.err = ErrDecodePointer
    /\ reader["d1"] # <<>> /\ ctxPool # {} /\ DOMAIN cachedDecoder # {}

\* C7: a destination of an unsupported kind gets the UnsupportedType error,
\* and every cached program is complete.
C7_UnsupportedTypeIsAnError ==
    /\ (IsCall /\ TypeOf(ret.typ).kind = "Ptr" /\ Unsupported(TypeOf(ret.typ)))
         => ret.err = ErrUnsupportedType
    /\ \A name \in DOMAIN cachedDecoder : Complete(cachedDecoder[name])

\* C8: no access to the decoder cache overlaps an assignment to it by another
\* goroutine, no lookup yields anything but a miss or a compiled program, and
\* the runtime never stops the process over the map.
C8_CacheToleratesConcurrency ==
    /\ \A g \in DOMAIN gor : \A h \in Others(g) :
          ~(gor[g].pc = "writing" /\ gor[h].pc \in {"reading", "writing"})
    /\ \A g \in DOMAIN gor : gor[g].dec # TornDecoder /\ gor[g].pc # "fatal"
    /\ \A name \in DOMAIN cachedDecoder : cachedDecoder[name] # TornDecoder

\* C9: the program a call runs is the one compiled for the destination's own
\* type, whatever was decoded before.
C9_OwnProgram ==
    /\ (IsCall /\ ret.dec # NoDecoder)
          => ret.dec = compile(TypeOf(ret.typ).elem[1]).dec
    /\ \A t \in PtrTypes(destTypes) : mem[t.id].kind = zeroCell(t).kind


\* C10: in a struct decoder's field map every key resolves to the
\* earliest-declared field that inserts it.
C10_FirstInsertionWins ==
    \A t \in PtrTypes(destTypes) :
        (t.str \in DOMAIN cachedDecoder /\ cachedDecoder[t.str].node = "struct")
        => \A key \in DOMAIN cachedDecoder[t.str].fieldMap :
              cachedDecoder[t.str].fieldMap[key].offset
                  = FirstFieldFor(t.elem[1], key).Offset

\* The number a numeral denotes, read off its digits.
NumeralValue(src) ==
    LET t == SelectSeq(src, LAMBDA c : c # " ")
    IN  IF t[1] = "-" THEN 0 - DecimalValue(Tail(t)) ELSE DecimalValue(t)

\* N mod 2^w for w = 8, 16, as the number in [0, 2^w) congruent to N.
ModPow2(N, w) == N % Pow2(w)

\* The truncating two's-complement conversion of N to w bits.
Truncated(N, w, signed) ==
    IF w >= 32 THEN N
    ELSE IF signed /\ ModPow2(N, w) >= Pow2(w) \div 2 THEN ModPow2(N, w) - Pow2(w)
    ELSE ModPow2(N, w)

WidthOf(kind) ==
    CASE kind \in {"Int8", "Uint8"} -> 8 [] kind \in {"Int16", "Uint16"} -> 16
      [] kind = "Int32" -> 32 [] OTHER -> 64
SignedKind(kind) == kind \in {"Int8", "Int16", "Int32", "Int64"}

\* The numeral the most recent Unmarshal was given: what its context holds.
SrcOf(r) == ctxs[r.ctx].buf

IntCall ==
    /\ ret.op = "Unmarshal" /\ ret.ctx # 0
    /\ TypeOf(ret.typ).kind = "Ptr"
    /\ TypeOf(ret.typ).elem[1] \in IntTypes
    /\ (SignedKind(TypeOf(ret.typ).elem[1].kind) \/ NumeralValue(SrcOf(ret)) >= 0)

C12_NewEncoderIsReset ==
    eret.op = "NewEncoder" =>
        /\ eret.e \in LiveEncs
        /\ encs[eret.e].w # "nil"
        /\ encs[eret.e].buf = <<>>
        /\ encs[eret.e].indent = 0
        /\ encs[eret.e].enabledHTMLEscape
        /\ ~encs[eret.e].enabledIndent

\* NewEncoder returned a pooled Encoder that an earlier holder had encoded
\* with and had set an indent on.
C12_Witness ==
    /\ eret.op = "NewEncoder"
    /\ encodes > 0
    /\ encs[eret.e].indentStr # <<>>

\* C13: while a goroutine runs an opcode object it has written its pointer
\* into, no other goroutine is reading that object to copy it.
C13_OpcodeObjectsAreExclusive ==
    \A g \in DOMAIN egor : \A h \in DOMAIN egor \ {g} :
        ~(/\ egor[g].pc = "running" /\ egor[g].obj = OrigOf(g)
          /\ egor[h].pc = "copying" /\ egor[h].obj = CopyOf(g))

\* C14: every context the pool holds is in reset state: it has no buffer of
\* an earlier call and its cursor is at 0.
C14_PooledContextsAreReset ==
    \A c \in ctxPool : ctxs[c] = newContext

\* C15: after a call that returned an error, what it borrowed is back in its
\* pool: the context of a Decode or Unmarshal, and the opcode copy of an
\* Encode that ran a cached program.
C15_BorrowedObjectsAreReturned ==
    /\ (ret.op \in {"Decode", "Unmarshal"} /\ ret.ctx # 0
          /\ ret.err \notin {Nil, NilDereference})
            => ret.ctx \in ctxPool
    /\ (eret.op = "Encode" /\ eret.err # Nil /\ ~eret.firstUse
          /\ eret.prog # "none")
            => cachedOpcode[eret.val.typ][eret.prog] > 0

\* C16: no two goroutines hold a program each has compiled for one and the
\* same type: the compiler has run at most once for the type.
C16_CompiledAtMostOnce ==
    \A g \in DOMAIN egor : \A h \in DOMAIN egor \ {g} :
        ~(/\ egor[g].obj = OrigOf(g) /\ egor[h].obj = OrigOf(h)
          /\ egor[g].val.typ = egor[h].val.typ)

\* What d.Buffered() would return in this state.
BufferedOut(d) ==
    IF buffered[d] = 0 THEN [err |-> NilDereference, out |-> <<>>]
    ELSE LET cx == ctxs[buffered[d]]
         IN  [err |-> Nil, out |-> SubSeq(cx.buf, cx.cursor + 1, Len(cx.buf))]

\* C17: a Decode on one Decoder leaves what Buffered returns on every other
\* Decoder as it was.
C17_BufferedIsOwn ==
    [][\A d \in DOMAIN reader :
          (hist' # hist /\ ret'.d # d) => BufferedOut(d)' = BufferedOut(d)]_vars

\* The indent settings of Encoder e.
IndentOf(e) ==
    [on |-> encs[e].enabledIndent, prefix |-> encs[e].prefix,
     unit |-> encs[e].indentStr]

\* C18: an Encode runs the indented program exactly when indentation is
\* enabled on its Encoder, on the first-use path and on the cached path alike;
\* a SetIndent enables it, with just the prefix and unit given, exactly when
\* one of the two is non-empty; NewEncoder disables it; no other call, and no
\* call on another Encoder, changes the settings.
C18_IndentFollowsSetIndent ==
    [][/\ (eret'.op = "Encode" /\ eret'.prog # "none")
           => (eret'.prog = "codeIndent") = encs[eret'.e].enabledIndent
       /\ eret'.op = "SetIndent"
           => /\ encs'[eret'.e].enabledIndent = (eret'.args # << <<>>, <<>> >>)
              /\ encs'[eret'.e].enabledIndent
                   => /\ encs'[eret'.e].prefix = eret'.args[1]
                      /\ encs'[eret'.e].indentStr = eret'.args[2]
       /\ eret'.op = "NewEncoder" => ~encs'[eret'.e].enabledIndent
       /\ \A e \in 1..Len(encs) :
             (eret'.op \notin {"SetIndent", "NewEncoder"} \/ eret'.e # e)
                 => IndentOf(e)' = IndentOf(e)]_encVars

\* A cached-path Encode ran the indented program with the unit that was set.
C18_Witness ==
    /\ eret.op = "Encode" /\ ~eret.firstUse /\ eret.wrote
    /\ eret.prog = "codeIndent"
    /\ encs[eret.e].indentStr = <<" ">>

\* C19: for an input the in-memory scan finds a number in, the streaming
\* scan, however the reader cuts the input, returns the same bytes; and the
\* two scans fail on the same inputs.
C19_StreamScanEqualsBufferScan ==
    (scan.phase = "on" /\ scan.streamed.done /\ scan.inMemory.done)
        => /\ (scan.streamed.err = Nil) = (scan.inMemory.err = Nil)
           /\ scan.inMemory.err = Nil
                => scan.streamed.bytes = scan.inMemory.bytes

\* A number that continues across a refill was scanned both ways.
C19_Witness ==
    /\ scan.phase = "on" /\ scan.streamed.done /\ scan.inMemory.done
    /\ scan.chunks = << <<"1">>, <<".">>, <<"1">> >>
    /\ scan.streamed.bytes = <<"1", ".", "1">>

\* The bytes that may follow the first byte of a numeric token.
TokenBytes == {"0", "1", "2", "3", "4", "5", "6", "7", "8", "9", ".", "e", "E", "+"}

\* The number of leading whitespace bytes of b.
LeadingSpace(b) ==
    CHOOSE k \in 0..Len(b) :
        /\ \A i \in 1..k : b[i] \in {" ", "\n", "\t", "\r"}
        /\ k < Len(b) => b[k + 1] \notin {" ", "\n", "\t", "\r"}

\* b has a token: its first byte after the whitespace is '-' or a digit.
HasToken(b) ==
    /\ LeadingSpace(b) < Len(b)
    /\ b[LeadingSpace(b) + 1] \in
         {"-", "0", "1", "2", "3", "4", "5", "6", "7", "8", "9"}

\* Where the token of b ends: the maximal run of TokenBytes after its first
\* byte.
TokenEnd(b) ==
    CHOOSE e \in (LeadingSpace(b) + 1)..Len(b) :
        /\ \A i \in (LeadingSpace(b) + 2)..e : b[i] \in TokenBytes
        /\ e < Len(b) => b[e + 1] \notin TokenBytes

\* C20: the scanner fails exactly when the input has no token; otherwise it
\* returns the bytes from the first byte after the leading whitespace to the
\* end of the maximal run of token bytes, and the in-memory scanner leaves
\* the cursor on the byte after them.
C20_ScannerReturnsTheToken ==
    /\ (scan.phase = "on" /\ scan.inMemory.done) =>
          IF HasToken(scan.input)
          THEN /\ scan.inMemory.err = Nil
               /\ scan.inMemory.bytes
                    = SubSeq(scan.input, LeadingSpace(scan.input) + 1,
                             TokenEnd(scan.input))
               /\ scan.inMemory.cursor = TokenEnd(scan.input)
          ELSE scan.inMemory.err # Nil
    /\ (scan.phase = "on" /\ scan.streamed.done) =>
          IF HasToken(scan.input)
          THEN /\ scan.streamed.err = Nil
               /\ scan.streamed.bytes
                    = SubSeq(scan.input, LeadingSpace(scan.input) + 1,
                             TokenEnd(scan.input))
          ELSE scan.streamed.err # Nil

\* A token after whitespace and before a byte that ends it was scanned.
C20_Witness ==
    /\ scan.phase = "on" /\ scan.inMemory.done
    /\ scan.input = <<"\n", "1", "x">>
    /\ scan.inMemory.bytes = <<"1">> /\ scan.inMemory.cursor = 2

====
